---- MODULE Spec2Model ----
(***************************************************************************)
(* A model of precommit_hooks/check_for_xxx.py: the hunk-header parser,    *)
(* the scan loop of collect_errors over the output of difflib's            *)
(* unified_diff, and main's loop over the entries of the changeset.        *)
(*                                                                         *)
(* A Python str that the code inspects character by character (a line, a   *)
(* text, a diff line) is a sequence of one-character strings.  A message   *)
(* that the code only builds and prints is a TLA+ string.                  *)
(***************************************************************************)
EXTENDS Integers, Sequences, FiniteSets, TLC

VARIABLES
    pc,           \* position of the running function
    hdr,          \* parse_line_number: the argument `line`
    result,       \* parse_line_number: what the call produced
    filename,     \* collect_errors: argument
    data_a,       \* collect_errors: argument
    data_b,       \* collect_errors: argument
    diff_result,  \* collect_errors: the lines unified_diff yields
    pos,          \* collect_errors: number of diff lines consumed by the for loop
    line,         \* collect_errors: the loop variable
    line_number,  \* collect_errors: the running counter
    errs,         \* collect_errors: the local list `errors`
    attributed,   \* history: (counter, line, flagged) of each line that reached line 75
    new_start,    \* history: value parsed from the most recent hunk header
    counted,      \* history: counted addition lines since that header
    changeset,    \* main: the entries repo.index.diff(against) yields
    idx,          \* main: number of entries the for loop has consumed
    errors,       \* main: the list `errors`
    stdout,       \* main: the lines printed so far
    ret           \* main: the return value

parseVars == <<hdr, result>>
scanVars  == <<filename, data_a, data_b, diff_result, pos, line, line_number,
               errs, attributed, new_start, counted>>
mainVars  == <<changeset, idx, errors, stdout, ret>>
vars      == <<pc, hdr, result, filename, data_a, data_b, diff_result, pos, line,
               line_number, errs, attributed, new_start, counted, changeset,
               idx, errors, stdout, ret>>

(***************************************************************************)
(* Bounds of the model.                                                    *)
(***************************************************************************)
MaxLines == 3       \* lines per text version
MaxStart == 20      \* largest number written in a drawn hunk header
MaxScan == 3        \* diff lines fed to the scan loop after the first hunk header
MaxEntries == 2     \* entries of a changeset

(***************************************************************************)
(* Python str operations used by the code.                                 *)
(***************************************************************************)
startswith(s, prefix) ==
    /\ Len(s) >= Len(prefix)
    /\ SubSeq(s, 1, Len(prefix)) = prefix

\* str.isspace for the characters of the model's alphabet
IsSpace(c) == c \in {" ", "\t", "\n", "\r", "\f"}

RECURSIVE lstrip(_)
lstrip(s) ==
    IF s # <<>> /\ IsSpace(Head(s)) THEN lstrip(Tail(s)) ELSE s

RECURSIVE rstrip(_)
rstrip(s) ==
    IF s # <<>> /\ IsSpace(s[Len(s)]) THEN rstrip(SubSeq(s, 1, Len(s) - 1)) ELSE s

strip(s) == rstrip(lstrip(s))

\* str.lower, one character
LowerChar(c) ==
    CASE c = "X" -> "x"
      [] c = "A" -> "a"
      [] c = "B" -> "b"
      [] OTHER -> c

lower(s) == [i \in 1..Len(s) |-> LowerChar(s[i])]

\* `sub in s`
Contains(s, sub) ==
    \E i \in 1..(Len(s) - Len(sub) + 1) : SubSeq(s, i, i + Len(sub) - 1) = sub

\* s.split(sep) with an explicit one-character separator: empty pieces are kept
RECURSIVE split(_, _)
split(s, sep) ==
    IF \A i \in 1..Len(s) : s[i] # sep
    THEN <<s>>
    ELSE LET k == CHOOSE i \in 1..Len(s) :
                      s[i] = sep /\ \A j \in 1..(i - 1) : s[j] # sep
         IN  <<SubSeq(s, 1, k - 1)>> \o split(SubSeq(s, k + 1, Len(s)), sep)

\* str.splitlines over an alphabet whose only line boundary is "\n": the text is
\* cut after every "\n", and no empty last line is produced
DropEmptyLast(parts) ==
    IF parts[Len(parts)] = <<>> THEN SubSeq(parts, 1, Len(parts) - 1) ELSE parts

splitlines(text) ==
    IF text = <<>> THEN <<>> ELSE DropEmptyLast(split(text, "\n"))

DigitChars == <<"0", "1", "2", "3", "4", "5", "6", "7", "8", "9">>

IsDigit(c) == \E d \in 1..10 : DigitChars[d] = c

DigitVal(c) == (CHOOSE d \in 1..10 : DigitChars[d] = c) - 1

\* '{}'.format(n) for n >= 0, as characters
RECURSIVE FormatInt(_)
FormatInt(n) ==
    IF n < 10 THEN <<DigitChars[n + 1]>>
    ELSE FormatInt(n \div 10) \o <<DigitChars[(n % 10) + 1]>>

\* f"{n}" for n >= 0, as a string
RECURSIVE StrInt(_)
StrInt(n) ==
    IF n < 0 THEN "-" \o StrInt(0 - n)
    ELSE IF n < 10 THEN DigitChars[n + 1]
    ELSE StrInt(n \div 10) \o DigitChars[(n % 10) + 1]

\* the digits of an int() literal: digits, single underscores between them
IntBodyOk(body) ==
    /\ body # <<>>
    /\ IsDigit(body[1])
    /\ IsDigit(body[Len(body)])
    /\ \A i \in 1..Len(body) : IsDigit(body[i]) \/ body[i] = "_"
    /\ \A i \in 1..(Len(body) - 1) : ~(body[i] = "_" /\ body[i + 1] = "_")

RECURSIVE IntBodyVal(_, _)
IntBodyVal(body, acc) ==
    IF body = <<>> THEN acc
    ELSE IF Head(body) = "_" THEN IntBodyVal(Tail(body), acc)
    ELSE IntBodyVal(Tail(body), 10 * acc + DigitVal(Head(body)))

\* int(s): surrounding whitespace is dropped, one optional sign, then the digits;
\* anything else raises ValueError (ok = FALSE)
ValueError == [ok |-> FALSE, value |-> 0]

IntOfBody(sgn, body) ==
    IF IntBodyOk(body)
    THEN [ok |-> TRUE, value |-> sgn * IntBodyVal(body, 0)]
    ELSE ValueError

IntOfStripped(t) ==
    IF t # <<>> /\ t[1] = "-" THEN IntOfBody(0 - 1, Tail(t))
    ELSE IF t # <<>> /\ t[1] = "+" THEN IntOfBody(1, Tail(t))
    ELSE IntOfBody(1, t)

int(s) == IntOfStripped(strip(s))

(***************************************************************************)
(* parse_line_number (lines 33-51).  ok = FALSE stands for the ValueError  *)
(* the call raises, from either raise statement or from int().             *)
(***************************************************************************)
\* lines 49-51, on the value of `parts`
ParseParts(parts) ==
    IF Len(parts) # 4 THEN ValueError
    ELSE int(split(parts[3], ",")[1])

parse_line_number(l) ==
    IF ~startswith(l, <<"@", "@">>) THEN ValueError
    ELSE ParseParts(split(l, " "))

(***************************************************************************)
(* difflib.SequenceMatcher(None, a, b), as unified_diff uses it at lines   *)
(* 64-66.  a and b are sequences of lines; indices are Python's (0-based,  *)
(* half-open ranges), so a[i] of the library is a[i + 1] here.  With       *)
(* isjunk = None and fewer than 200 lines no element is junk or popular.   *)
(***************************************************************************)
Min(x, y) == IF x < y THEN x ELSE y
Max(x, y) == IF x > y THEN x ELSE y

\* length of the common run that starts at a[i], b[j] and stays below ahi, bhi
RECURSIVE MatchLen(_, _, _, _, _, _)
MatchLen(a, b, i, j, ahi, bhi) ==
    IF i < ahi /\ j < bhi /\ a[i + 1] = b[j + 1]
    THEN 1 + MatchLen(a, b, i + 1, j + 1, ahi, bhi)
    ELSE 0

\* the size of the longest common block within the ranges
LongestSize(a, b, alo, ahi, blo, bhi) ==
    CHOOSE s \in {MatchLen(a, b, i, j, ahi, bhi) :
                      i \in alo..(ahi - 1), j \in blo..(bhi - 1)} \cup {0} :
        \A i \in alo..(ahi - 1), j \in blo..(bhi - 1) :
            MatchLen(a, b, i, j, ahi, bhi) <= s

\* the earliest start in a of a block of size k
BestI(a, b, alo, ahi, blo, bhi, k) ==
    CHOOSE i \in alo..(ahi - 1) :
        /\ \E j \in blo..(bhi - 1) : MatchLen(a, b, i, j, ahi, bhi) = k
        /\ \A i2 \in alo..(i - 1) :
               \A j \in blo..(bhi - 1) : MatchLen(a, b, i2, j, ahi, bhi) # k

\* the earliest start in b of a block of size k that starts at besti in a
BestJ(a, b, ahi, blo, bhi, k, besti) ==
    CHOOSE j \in blo..(bhi - 1) :
        /\ MatchLen(a, b, besti, j, ahi, bhi) = k
        /\ \A j2 \in blo..(j - 1) : MatchLen(a, b, besti, j2, ahi, bhi) # k

BlockAt(a, b, ahi, blo, bhi, k, besti) ==
    <<besti, BestJ(a, b, ahi, blo, bhi, k, besti), k>>

BlockOfSize(a, b, alo, ahi, blo, bhi, k) ==
    IF k = 0 THEN <<alo, blo, 0>>
    ELSE BlockAt(a, b, ahi, blo, bhi, k, BestI(a, b, alo, ahi, blo, bhi, k))

\* the longest block, of those the one that starts earliest in a, and of those
\* the one that starts earliest in b; <<alo, blo, 0>> when nothing matches
find_longest_match(a, b, alo, ahi, blo, bhi) ==
    BlockOfSize(a, b, alo, ahi, blo, bhi, LongestSize(a, b, alo, ahi, blo, bhi))

\* the blocks the queue of get_matching_blocks collects, sorted: the block x,
\* what the queue finds to its left and what it finds to its right
RECURSIVE MatchingBlocksIn(_, _, _, _, _, _)
BlocksAround(a, b, alo, ahi, blo, bhi, x) ==
    IF x[3] = 0 THEN <<>>
    ELSE (IF alo < x[1] /\ blo < x[2]
          THEN MatchingBlocksIn(a, b, alo, x[1], blo, x[2]) ELSE <<>>)
         \o <<x>>
         \o (IF x[1] + x[3] < ahi /\ x[2] + x[3] < bhi
             THEN MatchingBlocksIn(a, b, x[1] + x[3], ahi, x[2] + x[3], bhi)
             ELSE <<>>)

MatchingBlocksIn(a, b, alo, ahi, blo, bhi) ==
    BlocksAround(a, b, alo, ahi, blo, bhi,
                 find_longest_match(a, b, alo, ahi, blo, bhi))

\* adjacent blocks are merged
RECURSIVE CollapseBlocks(_, _, _)
CollapseBlocks(blocks, cur, out) ==
    IF blocks = <<>>
    THEN IF cur[3] # 0 THEN Append(out, cur) ELSE out
    ELSE IF cur[1] + cur[3] = blocks[1][1] /\ cur[2] + cur[3] = blocks[1][2]
    THEN CollapseBlocks(Tail(blocks),
                        <<cur[1], cur[2], cur[3] + blocks[1][3]>>, out)
    ELSE CollapseBlocks(Tail(blocks), blocks[1],
                        IF cur[3] # 0 THEN Append(out, cur) ELSE out)

get_matching_blocks(a, b) ==
    Append(CollapseBlocks(MatchingBlocksIn(a, b, 0, Len(a), 0, Len(b)),
                          <<0, 0, 0>>, <<>>),
           <<Len(a), Len(b), 0>>)

\* opcodes are <<tag, i1, i2, j1, j2>>
OpcodeTag(i, j, ai, bj) ==
    IF i < ai /\ j < bj THEN "replace"
    ELSE IF i < ai THEN "delete"
    ELSE IF j < bj THEN "insert"
    ELSE ""

RECURSIVE OpcodesFrom(_, _, _)
OpcodesFrom(blocks, i, j) ==
    IF blocks = <<>> THEN <<>>
    ELSE (IF OpcodeTag(i, j, blocks[1][1], blocks[1][2]) # ""
          THEN <<<<OpcodeTag(i, j, blocks[1][1], blocks[1][2]),
                   i, blocks[1][1], j, blocks[1][2]>>>>
          ELSE <<>>)
         \o (IF blocks[1][3] # 0
             THEN <<<<"equal", blocks[1][1], blocks[1][1] + blocks[1][3],
                               blocks[1][2], blocks[1][2] + blocks[1][3]>>>>
             ELSE <<>>)
         \o OpcodesFrom(Tail(blocks), blocks[1][1] + blocks[1][3],
                        blocks[1][2] + blocks[1][3])

get_opcodes(a, b) == OpcodesFrom(get_matching_blocks(a, b), 0, 0)

\* the loop of get_grouped_opcodes: the groups finished so far, then the open group
RECURSIVE GroupLoop(_, _, _, _)
GroupLoop(codes, n, groups, group) ==
    IF codes = <<>>
    THEN IF group # <<>> /\ ~(Len(group) = 1 /\ group[1][1] = "equal")
         THEN Append(groups, group)
         ELSE groups
    ELSE IF codes[1][1] = "equal" /\ codes[1][3] - codes[1][2] > n + n
    THEN GroupLoop(Tail(codes), n,
             Append(groups,
                    Append(group,
                           <<"equal", codes[1][2], Min(codes[1][3], codes[1][2] + n),
                             codes[1][4], Min(codes[1][5], codes[1][4] + n)>>)),
             <<<<"equal", Max(codes[1][2], codes[1][3] - n), codes[1][3],
                 Max(codes[1][4], codes[1][5] - n), codes[1][5]>>>>)
    ELSE GroupLoop(Tail(codes), n, groups, Append(group, codes[1]))

\* `if not codes`
NonEmptyCodes(codes) ==
    IF codes = <<>> THEN <<<<"equal", 0, 1, 0, 1>>>> ELSE codes

\* the fixup of a leading group that shows no change
LeadingFixup(codes, n) ==
    IF codes[1][1] = "equal"
    THEN <<<<"equal", Max(codes[1][2], codes[1][3] - n), codes[1][3],
             Max(codes[1][4], codes[1][5] - n), codes[1][5]>>>>
         \o Tail(codes)
    ELSE codes

\* the fixup of a trailing group that shows no change
TrailingFixup(codes, n) ==
    IF codes[Len(codes)][1] = "equal"
    THEN SubSeq(codes, 1, Len(codes) - 1)
         \o <<<<"equal", codes[Len(codes)][2],
                Min(codes[Len(codes)][3], codes[Len(codes)][2] + n),
                codes[Len(codes)][4],
                Min(codes[Len(codes)][5], codes[Len(codes)][4] + n)>>>>
    ELSE codes

get_grouped_opcodes(a, b, n) ==
    GroupLoop(TrailingFixup(LeadingFixup(NonEmptyCodes(get_opcodes(a, b)), n), n),
              n, <<>>, <<>>)

\* difflib._format_range_unified
format_range_unified(start, stop) ==
    IF stop - start = 1 THEN FormatInt(start + 1)
    ELSE FormatInt(IF stop - start = 0 THEN start ELSE start + 1)
         \o <<",">> \o FormatInt(stop - start)

Prefixed(c, lines) == [i \in 1..Len(lines) |-> <<c>> \o lines[i]]

\* the lines of one opcode c
OpcodeLines(a, b, c) ==
    IF c[1] = "equal"
    THEN Prefixed(" ", SubSeq(a, c[2] + 1, c[3]))
    ELSE (IF c[1] \in {"replace", "delete"}
          THEN Prefixed("-", SubSeq(a, c[2] + 1, c[3])) ELSE <<>>)
         \o (IF c[1] \in {"replace", "insert"}
             THEN Prefixed("+", SubSeq(b, c[4] + 1, c[5])) ELSE <<>>)

RECURSIVE GroupBody(_, _, _)
GroupBody(a, b, group) ==
    IF group = <<>> THEN <<>>
    ELSE OpcodeLines(a, b, group[1]) \o GroupBody(a, b, Tail(group))

HunkHeader(group) ==
    <<"@", "@", " ", "-">>
    \o format_range_unified(group[1][2], group[Len(group)][3])
    \o <<" ", "+">>
    \o format_range_unified(group[1][4], group[Len(group)][5])
    \o <<" ", "@", "@">>

RECURSIVE Hunks(_, _, _)
Hunks(a, b, groups) ==
    IF groups = <<>> THEN <<>>
    ELSE <<HunkHeader(Head(groups))>> \o GroupBody(a, b, Head(groups))
         \o Hunks(a, b, Tail(groups))

\* the two file-header lines, with empty file names and dates and lineterm=""
FromFileLine == <<"-", "-", "-", " ">>
ToFileLine == <<"+", "+", "+", " ">>

\* difflib.unified_diff(a, b, lineterm="", n=n), as the list of lines it yields
DiffLines(a, b, groups) ==
    IF groups = <<>> THEN <<>>
    ELSE <<FromFileLine, ToFileLine>> \o Hunks(a, b, groups)

unified_diff(a, b, n) == DiffLines(a, b, get_grouped_opcodes(a, b, n))

(***************************************************************************)
(* collect_errors (lines 54-79).                                           *)
(***************************************************************************)
ContextLines == 0

\* the literal "# xxx" of line 75
DebugMarker == <<"#", " ", "x", "x", "x">>

\* the literal "+++" of line 71
FileHeaderMark == <<"+", "+", "+">>

\* the f-string of line 76
Message(fname, n) == "Debug marker detected at " \o fname \o ":" \o StrInt(n)

\* the state of the loop before its first iteration (lines 63 and 67)
ScanStart == [line_number |-> 1, errors |-> <<>>, attributed |-> <<>>, raised |-> FALSE]

\* ScanBody with line 75 comparing without lower()
ScanBodyCaseSensitive(fname, st, l, number) ==
    IF ~startswith(l, <<"+">>) \/ strip(l) = FileHeaderMark
    THEN [st EXCEPT !.line_number = number]
    ELSE [line_number |-> number + 1,
          errors      |-> IF Contains(l, DebugMarker)
                          THEN Append(st.errors, Message(fname, number))
                          ELSE st.errors,
          attributed  |-> Append(st.attributed,
                                 [n |-> number, text |-> l,
                                  flagged |-> Contains(l, DebugMarker)]),
          raised      |-> FALSE]

\* ScanBody with line 71 not excepting the "+++" line
ScanBodyCountsFileHeader(fname, st, l, number) ==
    IF ~startswith(l, <<"+">>)
    THEN [st EXCEPT !.line_number = number]
    ELSE [line_number |-> number + 1,
          errors      |-> IF Contains(lower(l), DebugMarker)
                          THEN Append(st.errors, Message(fname, number))
                          ELSE st.errors,
          attributed  |-> Append(st.attributed,
                                 [n |-> number, text |-> l,
                                  flagged |-> Contains(lower(l), DebugMarker)]),
          raised      |-> FALSE]

\* ScanBody without the increment of lines 77-78
ScanBodyNoIncrement(fname, st, l, number) ==
    IF ~startswith(l, <<"+">>) \/ strip(l) = FileHeaderMark
    THEN [st EXCEPT !.line_number = number]
    ELSE [line_number |-> number,
          errors      |-> IF Contains(lower(l), DebugMarker)
                          THEN Append(st.errors, Message(fname, number))
                          ELSE st.errors,
          attributed  |-> Append(st.attributed,
                                 [n |-> number, text |-> l,
                                  flagged |-> Contains(lower(l), DebugMarker)]),
          raised      |-> FALSE]

\* lines 71-78 of one iteration, with the counter as lines 69-70 left it
ScanBody(fname, st, l, number) ==
    IF ~startswith(l, <<"+">>) \/ strip(l) = FileHeaderMark
    THEN [st EXCEPT !.line_number = number]
    ELSE [line_number |-> number + 1,
          errors      |-> IF Contains(lower(l), DebugMarker)
                          THEN Append(st.errors, Message(fname, number))
                          ELSE st.errors,
          attributed  |-> Append(st.attributed,
                                 [n |-> number, text |-> l,
                                  flagged |-> Contains(lower(l), DebugMarker)]),
          raised      |-> FALSE]

\* lines 69-70 on a hunk header, parsed being what parse_line_number produced
ScanHeader(fname, st, l, parsed) ==
    IF ~parsed.ok THEN [st EXCEPT !.raised = TRUE]
    ELSE ScanBody(fname, st, l, parsed.value)

\* one iteration of the for loop (lines 68-78) on the diff line l
ScanLine(fname, st, l) ==
    IF startswith(l, <<"@", "@">>)
    THEN ScanHeader(fname, st, l, parse_line_number(l))
    ELSE ScanBody(fname, st, l, st.line_number)

\* the diff of lines 64-66: from data_b's lines to data_a's lines
DiffOf(a_text, b_text) ==
    unified_diff(splitlines(b_text), splitlines(a_text), ContextLines)

RECURSIVE ScanAll(_, _, _)
ScanAll(fname, st, lines) ==
    IF lines = <<>> \/ st.raised THEN st
    ELSE ScanAll(fname, ScanLine(fname, st, Head(lines)), Tail(lines))

\* the whole call; raised = TRUE when parse_line_number's exception leaves it
collect_errors(fname, a_text, b_text) ==
    ScanAll(fname, ScanStart, DiffOf(a_text, b_text))

(***************************************************************************)
(* main (lines 82-106) and read_blob (lines 15-30).  A blob is absent      *)
(* (None), or holds bytes that decode as UTF-8 to the text `data`, or      *)
(* holds bytes that do not decode.  Two blobs are equal when their content *)
(* is (GitPython compares the content hash).                               *)
(***************************************************************************)
None == [present |-> FALSE, utf8 |-> TRUE, data |-> <<>>]

TextBlob(text) == [present |-> TRUE, utf8 |-> TRUE, data |-> text]

BinaryBlob == [present |-> TRUE, utf8 |-> FALSE, data |-> <<"0xff", "0xfe">>]

read_blob(blob) ==
    IF ~blob.present THEN <<>>
    ELSE IF blob.utf8 THEN blob.data
    ELSE <<>>

\* SkipEntry without the test for an absent b_blob
SkipEntryOnlyIdentical(diff) == diff.a_blob = diff.b_blob

\* the test of line 97
SkipEntry(diff) == diff.a_blob = diff.b_blob \/ diff.b_blob = None

\* `diff.b_path or ""`; NoPath stands for a b_path of None
NoPath == "<None>"
PathOf(diff) == IF diff.b_path = NoPath THEN "" ELSE diff.b_path

\* the call of line 101
CollectEntry(diff) ==
    collect_errors(PathOf(diff), read_blob(diff.a_blob), read_blob(diff.b_blob))

\* errors.extend(new)
extend(list, new) == list \o new

\* ExitCode returning 0 whatever was collected
ExitCodeAlwaysZero(list) == 0

\* the value main returns (lines 102-106)
ExitCode(list) == IF list # <<>> THEN 1 ELSE 0

NotReturned == 0 - 1

(***************************************************************************)
(* Inputs.                                                                 *)
(***************************************************************************)
SeqsUpTo(S, n) == UNION {[1..k -> S] : k \in 0..n}

RECURSIVE Join(_, _)
Join(pieces, sep) ==
    IF pieces = <<>> THEN <<>>
    ELSE IF Len(pieces) = 1 THEN pieces[1]
    ELSE pieces[1] \o sep \o Join(Tail(pieces), sep)

\* lines of a text version: a plain line, a line with the marker, and a line
\* whose addition reads "+++" in the diff
PlainLine == <<"a">>
MarkerLine == <<"#", " ", "x", "x", "x">>
PlusPlusLine == <<"+", "+">>
TextLines == {PlainLine, MarkerLine, PlusPlusLine}

\* a text version: its lines joined by "\n", the last one terminated or not
TextOf(ls, terminated) ==
    Join(ls, <<"\n">>) \o (IF terminated /\ ls # <<>> THEN <<"\n">> ELSE <<>>)

Texts == {TextOf(ls, t) : ls \in SeqsUpTo(TextLines, MaxLines), t \in BOOLEAN}

\* hunk headers for the scan: a first token, an old range, a third token, a last one
Tokens(ts) == Join(ts, <<" ">>)
AtAt == <<"@", "@">>
OldRanges == {<<"-", "1", "4", ",", "0">>, <<"-", "0", ",", "0">>}
Numbers == {FormatInt(n) : n \in 0..MaxStart} \cup {<<>>, <<"x">>}
Signs == {<<>>, <<"+">>, <<"-">>}
Counts == {<<>>, <<",", "3">>, <<",", "x">>}
ThirdTokens == {sg \o nm \o ct : sg \in Signs, nm \in Numbers, ct \in Counts}
HeaderLines ==
    UNION {{Tokens(<<AtAt, o, t, AtAt>>),
            Tokens(<<AtAt, o, t>>),
            Tokens(<<AtAt, o, t, AtAt, AtAt>>),
            Tokens(<<<<"-", "-">>, o, t, AtAt>>)} : o \in OldRanges, t \in ThirdTokens}

\* diff lines fed to the scan loop after '--- ', '+++ ' and a first hunk header
Header5 == Tokens(<<AtAt, <<"-", "0", ",", "0">>, <<"+", "5">>, AtAt>>)
Header50 == Tokens(<<AtAt, <<"-", "9">>, <<"+", "5", "0", ",", "2">>, AtAt>>)
BadHeader == Tokens(<<AtAt, <<"+", "5">>, AtAt>>)
ScanLines ==
    {Header5, Header50, BadHeader,
     <<"+">> \o MarkerLine,
     <<"+", "#", " ", "X", "X", "X", " ", "f", "i", "x", " ", "m", "e">>,
     <<"+", "x", "x", "x">>,
     <<"+", "#", "x", "x", "x">>,
     <<"+", "#", " ", " ", "x", "x", "x">>,
     <<"+", "y", " ", "#", " ", "x", "X", "x", " ", "#", " ", "x", "x", "x">>,
     <<"-">> \o MarkerLine,
     <<" ">> \o MarkerLine,
     <<"+">> \o PlusPlusLine}
ScanInputs ==
    {<<FromFileLine, ToFileLine, h>> \o rest :
        h \in {Header5, Header50}, rest \in SeqsUpTo(ScanLines, MaxScan)}

\* entries of a changeset
OldText == TextOf(<<<<"a">>, <<"b">>>>, TRUE)
NewText == TextOf(<<<<"a">>, MarkerLine \o <<" ", "d", "e", "b", "u", "g">>, <<"b">>>>, TRUE)
Blobs == {None, TextBlob(OldText), TextBlob(NewText), BinaryBlob}
Entries == [a_blob : Blobs, b_blob : Blobs, b_path : {"path", NoPath}]
Changesets == SeqsUpTo(Entries, MaxEntries)

(***************************************************************************)
(* parse_line_number as a call.                                            *)
(***************************************************************************)
IdleParse == hdr = <<>> /\ result = ValueError
IdleScan ==
    /\ filename = "" /\ data_a = <<>> /\ data_b = <<>> /\ diff_result = <<>>
    /\ pos = 0 /\ line = <<>> /\ line_number = 1 /\ errs = <<>>
    /\ attributed = <<>> /\ new_start = 0 /\ counted = 0
IdleMain ==
    /\ changeset = <<>> /\ idx = 0 /\ errors = <<>> /\ stdout = <<>>
    /\ ret = NotReturned

InitParse ==
    /\ pc = "parse"
    /\ hdr \in HeaderLines
    /\ result = ValueError
    /\ IdleScan /\ IdleMain

Parse ==
    /\ pc = "parse"
    /\ result' = parse_line_number(hdr)
    /\ pc' = "parsed"
    /\ UNCHANGED <<hdr, scanVars, mainVars>>

NextParse == Parse
SpecParse == InitParse /\ [][NextParse]_vars

(***************************************************************************)
(* collect_errors as a call: the diff is computed, the loop takes the diff *)
(* lines one by one, the list is returned.                                 *)
(***************************************************************************)
InitCollect ==
    /\ pc = "call"
    /\ filename = "path"
    /\ data_a \in Texts
    /\ data_b \in Texts
    /\ diff_result = <<>> /\ pos = 0 /\ line = <<>> /\ line_number = 1
    /\ errs = <<>> /\ attributed = <<>> /\ new_start = 0 /\ counted = 0
    /\ IdleParse /\ IdleMain

\* lines 63-67
CollectCall ==
    /\ pc = "call"
    /\ diff_result' = DiffOf(data_a, data_b)
    /\ line_number' = ScanStart.line_number
    /\ errs' = ScanStart.errors
    /\ attributed' = ScanStart.attributed
    /\ pos' = 0
    /\ pc' = "scan"
    /\ UNCHANGED <<filename, data_a, data_b, line, new_start, counted,
                   parseVars, mainVars>>

\* lines 68-78, one iteration
ScanNext ==
    /\ pc = "scan"
    /\ pos < Len(diff_result)
    /\ \E l \in {diff_result[pos + 1]} :
       \E st \in {ScanLine(filename,
                           [line_number |-> line_number, errors |-> errs,
                            attributed |-> attributed, raised |-> FALSE], l)} :
           /\ line' = l
           /\ pos' = pos + 1
           /\ line_number' = st.line_number
           /\ errs' = st.errors
           /\ attributed' = st.attributed
           /\ pc' = IF st.raised THEN "raised" ELSE "scan"
           /\ new_start' = IF startswith(l, AtAt) /\ ~st.raised
                           THEN parse_line_number(l).value ELSE new_start
           /\ counted' = IF startswith(l, AtAt) /\ ~st.raised THEN 0
                         ELSE IF startswith(l, <<"+">>) /\ strip(l) # FileHeaderMark
                         THEN counted + 1
                         ELSE counted
    /\ UNCHANGED <<filename, data_a, data_b, diff_result, parseVars, mainVars>>

\* line 79
CollectReturn ==
    /\ pc = "scan"
    /\ pos = Len(diff_result)
    /\ pc' = "done"
    /\ UNCHANGED <<scanVars, parseVars, mainVars>>

NextCollect == CollectCall \/ ScanNext \/ CollectReturn
SpecCollect == InitCollect /\ [][NextCollect]_vars

(***************************************************************************)
(* The scan loop of collect_errors on any sequence of diff lines that      *)
(* begins with the two file-header lines and a hunk header.                *)
(***************************************************************************)
InitScan ==
    /\ pc = "scan"
    /\ filename = "path"
    /\ data_a = <<>> /\ data_b = <<>>
    /\ diff_result \in ScanInputs
    /\ pos = 0 /\ line = <<>> /\ line_number = 1
    /\ errs = <<>> /\ attributed = <<>> /\ new_start = 0 /\ counted = 0
    /\ IdleParse /\ IdleMain

NextScan == ScanNext \/ CollectReturn
SpecScan == InitScan /\ [][NextScan]_vars

(***************************************************************************)
(* main over a changeset.                                                  *)
(***************************************************************************)
Init ==
    /\ pc = "loop"
    /\ changeset \in Changesets
    /\ idx = 0
    /\ errors = <<>>
    /\ stdout = <<>>
    /\ ret = NotReturned
    /\ IdleParse /\ IdleScan

\* lines 96-98: the entry is skipped
MainSkip ==
    /\ pc = "loop"
    /\ idx < Len(changeset)
    /\ SkipEntry(changeset[idx + 1])
    /\ idx' = idx + 1
    /\ UNCHANGED <<pc, changeset, errors, stdout, ret, parseVars, scanVars>>

\* lines 96-101: the entry is read and scanned
MainCollect ==
    /\ pc = "loop"
    /\ idx < Len(changeset)
    /\ ~SkipEntry(changeset[idx + 1])
    /\ \E r \in {CollectEntry(changeset[idx + 1])} :
           /\ pc' = IF r.raised THEN "raised" ELSE "loop"
           /\ errors' = IF r.raised THEN errors ELSE extend(errors, r.errors)
    /\ idx' = idx + 1
    /\ UNCHANGED <<changeset, stdout, ret, parseVars, scanVars>>

\* the for loop of line 96 is exhausted
MainEndLoop ==
    /\ pc = "loop"
    /\ idx = Len(changeset)
    /\ pc' = "report"
    /\ UNCHANGED <<changeset, idx, errors, stdout, ret, parseVars, scanVars>>

\* lines 103-104, one iteration
MainPrint ==
    /\ pc = "report"
    /\ ExitCode(errors) = 1
    /\ Len(stdout) < Len(errors)
    /\ stdout' = Append(stdout, errors[Len(stdout) + 1])
    /\ UNCHANGED <<pc, changeset, idx, errors, ret, parseVars, scanVars>>

\* lines 105 and 106
MainReturn ==
    /\ pc = "report"
    /\ ExitCode(errors) = 1 => Len(stdout) = Len(errors)
    /\ ret' = ExitCode(errors)
    /\ pc' = "done"
    /\ UNCHANGED <<changeset, idx, errors, stdout, parseVars, scanVars>>

Next == MainSkip \/ MainCollect \/ MainEndLoop \/ MainPrint \/ MainReturn
Spec == Init /\ [][Next]_vars

(***************************************************************************)
(* What the properties speak of.                                           *)
(***************************************************************************)
\* the line holds "# xxx" in some mix of upper and lower case
HoldsMarker(l) ==
    \E i \in 1..(Len(l) - 4) :
        /\ l[i] = "#"
        /\ l[i + 1] = " "
        /\ \A k \in 2..4 : l[i + k] \in {"x", "X"}

RemoveAt(s, p) == SubSeq(s, 1, p - 1) \o SubSeq(s, p + 1, Len(s))

Range(s) == {s[i] : i \in 1..Len(s)}

AllDigits(s) == s # <<>> /\ \A i \in 1..Len(s) : IsDigit(s[i])

RECURSIVE Decimal(_)
Decimal(s) ==
    IF s = <<>> THEN 0
    ELSE 10 * Decimal(SubSeq(s, 1, Len(s) - 1)) + DigitVal(s[Len(s)])

\* a range "<start>" or "<start>,<count>" after its sign
RangeOk(r) ==
    /\ Len(split(r, ",")) \in {1, 2}
    /\ \A k \in 1..Len(split(r, ",")) : AllDigits(split(r, ",")[k])

\* "+<int>" or "+<int>,<int>"
ThirdTokenOk(t) == t # <<>> /\ t[1] = "+" /\ RangeOk(Tail(t))

\* "@@ -<oldStart>[,<oldCount>] +<newStart>[,<newCount>] @@"
HeaderShape(l) ==
    /\ Len(split(l, " ")) = 4
    /\ split(l, " ")[1] = AtAt
    /\ split(l, " ")[4] = AtAt
    /\ split(l, " ")[2] # <<>>
    /\ split(l, " ")[2][1] = "-"
    /\ RangeOk(Tail(split(l, " ")[2]))
    /\ ThirdTokenOk(split(l, " ")[3])

NewStartOf(l) == Decimal(split(Tail(split(l, " ")[3]), ",")[1])

\* C4: parse_line_number returns <newStart> for every header of the shape
\* "@@ -<oldStart>[,<oldCount>] +<newStart>[,<newCount>] @@", and raises for
\* every line that does not split into exactly four space-delimited tokens or
\* whose third token is not "+<int>" or "+<int>,<int>".
C4_ParseContract ==
    pc = "parsed" =>
        /\ HeaderShape(hdr) => result = [ok |-> TRUE, value |-> NewStartOf(hdr)]
        /\ (Len(split(hdr, " ")) # 4 \/ ~ThirdTokenOk(split(hdr, " ")[3]))
               => ~result.ok

\* C1: when new is old with one marker line inserted at position p (the other
\* lines marker-free), collect_errors(path, data_a = old, data_b = new) returns
\* exactly "Debug marker detected at path:p"; with new = old it returns nothing.
C1_InsertedMarkerReported ==
    pc = "done" =>
        /\ data_b = data_a => errs = <<>>
        /\ \A p \in 1..Len(splitlines(data_b)) :
               ( /\ HoldsMarker(splitlines(data_b)[p])
                 /\ RemoveAt(splitlines(data_b), p) = splitlines(data_a)
                 /\ \A k \in 1..Len(splitlines(data_a)) :
                        ~HoldsMarker(splitlines(data_a)[k]) )
               => errs = <<Message(filename, p)>>

\* C2: when new is old with a marker line removed, and new holds no marker,
\* collect_errors(path, data_a = old, data_b = new) returns no diagnostic.
C2_DeletionNotFlagged ==
    pc = "done" =>
        \A p \in 1..Len(splitlines(data_a)) :
            ( /\ HoldsMarker(splitlines(data_a)[p])
              /\ RemoveAt(splitlines(data_a), p) = splitlines(data_b)
              /\ \A k \in 1..Len(splitlines(data_b)) :
                     ~HoldsMarker(splitlines(data_b)[k]) )
            => errs = <<>>

\* the addition lines of the diff the loop scanned
AdditionsOf(d) == {i \in 3..Len(d) : startswith(d[i], <<"+">>)}

\* C3: when the diff holds m addition lines, the scan attributes exactly m
\* additions, each under the 1-based position that line has in the version the
\* diff leads to (the lines after the "+" of the additions are its lines).
C3_TrueLineNumbers ==
    pc = "done" =>
        /\ Len(attributed) = Cardinality(AdditionsOf(diff_result))
        /\ \A k \in 1..Len(attributed) :
               /\ attributed[k].n \in 1..Len(splitlines(data_a))
               /\ attributed[k].text = <<"+">> \o splitlines(data_a)[attributed[k].n]

\* C5: an entry with no old content and a new content of n lines is scanned as
\* n additions numbered 1..n: every line of it that holds the marker is
\* reported with its position, and the run fails.
C5_NewFileReported ==
    pc = "done" =>
        \A i \in 1..Len(changeset) :
            ( /\ changeset[i].a_blob = None
              /\ changeset[i].b_blob.present
              /\ changeset[i].b_blob.utf8 )
            => \A k \in 1..Len(splitlines(changeset[i].b_blob.data)) :
                   HoldsMarker(splitlines(changeset[i].b_blob.data)[k])
                   => /\ ret = 1
                      /\ Message(PathOf(changeset[i]), k) \in Range(stdout)

\* C6: an addition line appends exactly one diagnostic, with the counter as it
\* stood, if and only if it holds "# xxx" in any case; the counter moves by the
\* one increment of an addition whether or not the line is flagged.
C6_MarkerScan ==
    [][(pc = "scan" /\ pc' = "scan" /\ pos' = pos + 1 /\ startswith(line', <<"+">>))
       => /\ HoldsMarker(line') =>
                 /\ errs' = Append(errs, Message(filename, line_number))
                 /\ line_number' = line_number + 1
          /\ ~HoldsMarker(line') => errs' = errs]_vars

C6_Witness ==
    /\ pc = "scan"
    /\ line = <<"+", "#", " ", "X", "X", "X", " ", "f", "i", "x", " ", "m", "e">>
    /\ line_number = 51
    /\ errs = <<Message("path", 50)>>

\* the diagnostics of the entries 1..k that line 97 lets through
RECURSIVE DiagnosticsUpTo(_)
DiagnosticsUpTo(k) ==
    IF k = 0 THEN <<>>
    ELSE DiagnosticsUpTo(k - 1)
         \o (IF SkipEntry(changeset[k]) THEN <<>> ELSE CollectEntry(changeset[k]).errors)

IsPrefix(s, t) == Len(s) <= Len(t) /\ SubSeq(t, 1, Len(s)) = s

\* C7: main returns 0 exactly when the diagnostics of all the entries it did
\* not skip are none, and 1 otherwise; it prints them in discovery order, each
\* once, and all of them before it returns 1.
C7_ExitContract ==
    /\ IsPrefix(stdout, DiagnosticsUpTo(Len(changeset)))
    /\ pc # "done" => ret = NotReturned
    /\ pc = "done" =>
           /\ ret \in {0, 1}
           /\ ret = 0 <=> DiagnosticsUpTo(Len(changeset)) = <<>>
           /\ ret = 1 => stdout = DiagnosticsUpTo(Len(changeset))

C7_Witness ==
    /\ pc = "done"
    /\ ret = 1
    /\ Len(changeset) = 2
    /\ Len(stdout) = 2

\* C8: an entry whose new content is absent, or whose old and new content are
\* the same, leaves the accumulated diagnostics as they are; any other entry
\* appends what collect_errors returns for it.
C8_EntryFilter ==
    [][(pc = "loop" /\ idx' = idx + 1)
       => IF \/ ~changeset[idx + 1].b_blob.present
             \/ changeset[idx + 1].a_blob = changeset[idx + 1].b_blob
          THEN errors' = errors /\ pc' = "loop"
          ELSE errors' = errors \o
                   collect_errors(PathOf(changeset[idx + 1]),
                                  read_blob(changeset[idx + 1].a_blob),
                                  read_blob(changeset[idx + 1].b_blob)).errors]_vars

C8_Witness ==
    /\ pc = "loop"
    /\ idx = 2
    /\ changeset[2].a_blob = TextBlob(NewText)
    /\ changeset[2].b_blob = None
    /\ Len(errors) = 1

\* C9: after the first hunk header the counter is the new-start of the most
\* recent header plus the counted additions since; a header overwrites the
\* counter, and a deletion, a context line, "--- " and "+++ " leave it alone.
C9_CounterInvariant ==
    /\ []((pc \in {"scan", "done"} /\ pos >= 3) => line_number = new_start + counted)
    /\ [][(pc = "scan" /\ pc' = "scan" /\ pos' = pos + 1)
          => /\ startswith(line', AtAt) => line_number' = NewStartOf(line')
             /\ ( \/ startswith(line', <<"-">>)
                  \/ startswith(line', <<" ">>)
                  \/ line' = ToFileLine )
                => line_number' = line_number]_vars

C9_Witness ==
    /\ pc = "scan"
    /\ pos = 6
    /\ new_start = 50
    /\ counted = 1
    /\ line_number = 51
    /\ diff_result[3] = Header5
    /\ diff_result[4] = <<"+">> \o MarkerLine

\* the counters under which diagnostics were appended, in order
RECURSIVE FlaggedNumbers(_)
FlaggedNumbers(att) ==
    IF att = <<>> THEN <<>>
    ELSE (IF att[1].flagged THEN <<att[1].n>> ELSE <<>>) \o FlaggedNumbers(Tail(att))

\* C10: the diagnostics of one call carry line numbers >= 1 that strictly
\* increase in list order, and there are no more of them than addition lines.
C10_IncreasingLineNumbers ==
    /\ Len(errs) = Len(FlaggedNumbers(attributed))
    /\ \A k \in 1..Len(errs) :
           /\ errs[k] = Message(filename, FlaggedNumbers(attributed)[k])
           /\ FlaggedNumbers(attributed)[k] >= 1
           /\ k < Len(errs)
                  => FlaggedNumbers(attributed)[k] < FlaggedNumbers(attributed)[k + 1]
    /\ Len(errs) <= Cardinality(AdditionsOf(diff_result))

C10_Witness ==
    /\ pc = "done"
    /\ errs = <<Message("path", 1), Message("path", 3)>>

====
